---- MODULE Spec2Model ----
(***************************************************************************)
(* Model of src/src/main.rs: the /lookup handler lookup_steam_id, the      *)
(* steam_ids table it reads and writes (check_cache, cache_result,         *)
(* estimate_from_db) and the margin computation calculate_error_range.     *)
(*                                                                         *)
(* Every request is a handler execution that is suspended at its awaits    *)
(* (the SELECT of check_cache, the GET to the Steam Web API, the INSERT of *)
(* cache_result, the SELECT of estimate_from_db); executions of different  *)
(* requests interleave at those points and share only the table.           *)
(*                                                                         *)
(* f64 arithmetic is modelled by exact rational arithmetic followed by the *)
(* truncation toward zero of `as i64`; for the identifiers and timestamps  *)
(* of the bounds below both agree (no product is near enough to an integer *)
(* for the rounding of the quotient to change the truncated value).        *)
(***************************************************************************)
EXTENDS Integers, Sequences, FiniteSets, TLC

\* ---------------------------------------------------------------- bounds
NumWorkers == 2          \* handler executions that can be in flight at once
MaxId == 4               \* steamid64 values are 1..MaxId
MaxTime == 1             \* timecreated values are 0..MaxTime
MaxRequests == 4         \* requests served in one behaviour
MaxStoredTime == 3       \* timecreated values of the tables of SpecStored
I64Width == 8            \* i64 is modelled as a two's-complement integer of this width

Workers == 1..NumWorkers
Ids == 1..MaxId
Times == 0..MaxTime

\* Option<T>: None is the empty tuple, Some(x) the tuple of x
None == << >>
Some(x) == <<x>>

\* What the GET to the Steam Web API can produce (main.rs:82-90):
\*   SendErr     client.get(&url).send() is Err
\*   NotJson     success status, resp.json() is Err
\*   NonSuccess  resp.status().is_success() is false
\*   NoTime      success status, JSON without response.players[0].timecreated
\*   Found(ts)   success status, timecreated = ts
Found(ts) == [kind |-> "Found", timecreated |-> ts]
Failure(k) == [kind |-> k, timecreated |-> 0]
UpstreamOutcomes ==
    {Found(ts) : ts \in Times}
        \cup {Failure(k) : k \in {"SendErr", "NotJson", "NonSuccess", "NoTime"}}

VARIABLES
    steam_ids,     \* the table: a function from the stored steamid64s to timecreated
    pc,            \* per worker: where its handler execution is suspended
    steamid64,     \* per worker: the parsed steamid64 of the request being served
    timecreated,   \* per worker: the timecreated read from the Steam API body
    response,      \* per worker: what the handler returned
    requests,      \* number of requests accepted so far
    \* history, read by the properties only
    upstream,      \* per worker: the outcome of the GET of this request, or None
    sends,         \* per worker: number of GETs sent to the Steam API for this request
    closest,       \* per worker: the rows the closest-ids query returned, or None
    cachedAtStart, \* per worker: timecreated stored for the id when the request began
    exactAtStart,  \* per worker: exact results already returned for the id at that time
    storedAtStart, \* per worker: the steamid64s stored in steam_ids when the request began
    unavailable,   \* per worker: the SQL call of this request that failed, or "none"
    exact          \* <<id, ts>> pairs returned from the cache or from the Steam API

vars == <<steam_ids, pc, steamid64, timecreated, response, requests, upstream, sends,
          closest, cachedAtStart, exactAtStart, storedAtStart, unavailable, exact>>

\* ------------------------------------------------------------- responses
NoResponse == [status |-> "none", timecreated |-> 0, error |-> 0, body |-> "none"]
\* HttpResponse::Ok().json(SteamIDResponse {..}); body names the returning branch
Ok(t, e, branch) == [status |-> "Ok", timecreated |-> t, error |-> e, body |-> branch]
\* HttpResponse::InternalServerError().body(msg)
InternalServerError(msg) ==
    [status |-> "InternalServerError", timecreated |-> 0, error |-> 0, body |-> msg]
\* HttpResponse::BadRequest().body("Bad Steam ID.")
BadRequest == [status |-> "BadRequest", timecreated |-> 0, error |-> 0, body |-> "Bad Steam ID."]
\* .unwrap() on an Err of sqlx: the handler panics, no response is built
Panicked(where) == [status |-> "panic", timecreated |-> 0, error |-> 0, body |-> where]

\* ------------------------------------------------------- pure functions
Abs(x) == IF x < 0 THEN -x ELSE x

\* i64::MAX, i64::MIN and two's-complement wrapping at the modelled width
I64Max == 2^(I64Width - 1) - 1
I64Min == -(2^(I64Width - 1))
WrapI64(x) == ((x - I64Min) % 2^I64Width) + I64Min

\* `as i64` of the f64 quotient n / d. For d # 0 the quotient truncated toward zero.
\* For d = 0 the f64 is +inf, -inf or NaN (0.0 / 0.0 and 0.0 * inf), and the cast
\* saturates: i64::MAX, i64::MIN, and 0 for NaN.
TruncDiv(n, d) ==
    IF d = 0
    THEN IF n > 0 THEN I64Max ELSE IF n < 0 THEN I64Min ELSE 0
    ELSE LET q == Abs(n) \div Abs(d)
         IN  IF (n < 0) = (d < 0) THEN q ELSE -q

\* estimated_time that subtracts the interpolated offset
estimated_time_Minus(target_id, lower_id, lower_time, upper_id, upper_time) ==
    WrapI64(lower_time
        - TruncDiv((target_id - lower_id) * (upper_time - lower_time), upper_id - lower_id))

\* let estimated_time = lower_time + ((steamid64 - lower_id) as f64 * local_slope) as i64
\* with local_slope = (upper_time - lower_time) as f64 / (upper_id - lower_id) as f64
\* (the sum as a release build computes it: wrapping)
estimated_time(target_id, lower_id, lower_time, upper_id, upper_time) ==
    WrapI64(lower_time
        + TruncDiv((target_id - lower_id) * (upper_time - lower_time), upper_id - lower_id))

\* the i64 addition of estimated_time overflows: a build with overflow checks
\* (debug) panics there, a build without them (release) wraps
estimated_time_overflows(target_id, lower_id, lower_time, upper_id, upper_time) ==
    LET sum == lower_time
                   + TruncDiv((target_id - lower_id) * (upper_time - lower_time),
                              upper_id - lower_id)
    IN  sum > I64Max \/ sum < I64Min

\* calculate_error_range without the .abs(): the margin keeps the sign of the product
calculate_error_range_Signed(target_id, lower_id, lower_time, upper_id, upper_time) ==
    TruncDiv((upper_time - lower_time) * (target_id - lower_id), upper_id - lower_id)

\* fn calculate_error_range: (local_slope * delta_id).abs() as i64
\* (the .abs() is taken on the f64, so -inf becomes +inf and casts to i64::MAX)
calculate_error_range(target_id, lower_id, lower_time, upper_id, upper_time) ==
    LET product ==
            TruncDiv((upper_time - lower_time) * (target_id - lower_id), upper_id - lower_id)
    IN  IF product = I64Min THEN I64Max ELSE Abs(product)

\* ---------------------------------------------------- the steam_ids table
\* check_cache with a WHERE clause that matches no row
check_cache_Miss(table, id) == None

\* check_cache without its WHERE clause: ORDER BY ABS(steamid64 - ?) LIMIT 1
check_cache_AnyRow(table, id) ==
    IF DOMAIN table = {} THEN None
    ELSE Some(table[CHOOSE i \in DOMAIN table :
                        \A j \in DOMAIN table : Abs(i - id) <= Abs(j - id)])

\* SELECT timecreated FROM steam_ids WHERE steamid64 = ?  (fetch_optional)
check_cache(table, id) == IF id \in DOMAIN table THEN Some(table[id]) ELSE None

\* The table's schema is not part of main.rs. By spec.md 3 and 4.1 the identifier
\* is unique in it: an INSERT of a stored steamid64 is refused with a duplicate-key
\* error
DuplicateKey(table, id) == id \in DOMAIN table

\* cache_result whose INSERT stores nothing
cache_result_Dropped(table, id, ts) == table

\* INSERT INTO steam_ids (steamid64, timecreated) VALUES (?, ?), when it is accepted
cache_result(table, id, ts) ==
    [i \in DOMAIN table \cup {id} |-> IF i = id THEN ts ELSE table[i]]

\* The rows the closest_ids query can return for target id: at most two rows,
\* ORDER BY ABS(steamid64 - ?) ASC LIMIT 2. Rows at the same distance come in any
\* order, and either of them can be the one the LIMIT cuts.
closest_ids(table, id) ==
    LET rows == {<<i, table[i]>> : i \in DOMAIN table}
        distance(r) == Abs(r[1] - id)
    IN  IF rows = {} THEN {<<>>}
        ELSE IF Cardinality(rows) = 1 THEN {<<r>> : r \in rows}
        ELSE {s \in {<<a, b>> : a \in rows, b \in rows} :
                 /\ s[1] # s[2]
                 /\ distance(s[1]) <= distance(s[2])
                 /\ \A r \in rows \ {s[1], s[2]} : distance(r) >= distance(s[2])}

\* estimate_from_db that answers a zeroed EstimationResult when rows are missing
estimate_from_db_Default(rows, id) ==
    IF Len(rows) = 2
    THEN Some([timecreated |->
                   estimated_time(id, rows[1][1], rows[1][2], rows[2][1], rows[2][2]),
               error |->
                   calculate_error_range(id, rows[1][1], rows[1][2], rows[2][1], rows[2][2])])
    ELSE Some([timecreated |-> 0, error |-> 0])

\* estimate_from_db that takes closest[1] as the lower row and closest[0] as the upper
estimate_from_db_FarBase(rows, id) ==
    IF Len(rows) = 2
    THEN Some([timecreated |->
                   estimated_time(id, rows[2][1], rows[2][2], rows[1][1], rows[1][2]),
               error |->
                   calculate_error_range(id, rows[2][1], rows[2][2], rows[1][1], rows[1][2])])
    ELSE None

\* estimate_from_db after the query: Some(EstimationResult) from closest[0] and
\* closest[1] when the query returned two rows, otherwise None
estimate_from_db(rows, id) ==
    IF Len(rows) = 2
    THEN LET lower_id == rows[1][1]
             lower_time == rows[1][2]
             upper_id == rows[2][1]
             upper_time == rows[2][2]
         IN  Some([timecreated |->
                       estimated_time(id, lower_id, lower_time, upper_id, upper_time),
                   error |->
                       calculate_error_range(id, lower_id, lower_time, upper_id, upper_time)])
    ELSE None

\* ------------------------------------------------------------ the handler
\* query.steamid64.parse::<i64>() of the request: Some(id), or None when the string
\* is not a number
Queries == {Some(id) : id \in Ids} \cup {None}

Init ==
    /\ steam_ids = << >>
    /\ pc = [p \in Workers |-> "idle"]
    /\ steamid64 = [p \in Workers |-> 0]
    /\ timecreated = [p \in Workers |-> 0]
    /\ response = [p \in Workers |-> NoResponse]
    /\ requests = 0
    /\ upstream = [p \in Workers |-> None]
    /\ sends = [p \in Workers |-> 0]
    /\ closest = [p \in Workers |-> None]
    /\ cachedAtStart = [p \in Workers |-> None]
    /\ exactAtStart = [p \in Workers |-> {}]
    /\ storedAtStart = [p \in Workers |-> {}]
    /\ unavailable = [p \in Workers |-> "none"]
    /\ exact = {}

\* The handler returns r: the response is recorded, and a result read from the
\* cache or from the Steam API (an exact result) is remembered in the history.
Return(p, r) ==
    /\ pc' = [pc EXCEPT ![p] = "done"]
    /\ response' = [response EXCEPT ![p] = r]
    /\ exact' = IF r.status = "Ok" /\ r.body \in {"cache", "upstream"}
                THEN exact \cup {<<steamid64[p], r.timecreated>>}
                ELSE exact

\* A request arrives at a free worker and its query is parsed (main.rs:59-64).
lookup_steam_id(p, q) ==
    /\ pc[p] \in {"idle", "done"}
    /\ requests < MaxRequests
    /\ requests' = requests + 1
    /\ timecreated' = [timecreated EXCEPT ![p] = 0]
    /\ upstream' = [upstream EXCEPT ![p] = None]
    /\ sends' = [sends EXCEPT ![p] = 0]
    /\ closest' = [closest EXCEPT ![p] = None]
    /\ unavailable' = [unavailable EXCEPT ![p] = "none"]
    /\ IF q = None
       THEN /\ steamid64' = [steamid64 EXCEPT ![p] = 0]
            /\ cachedAtStart' = [cachedAtStart EXCEPT ![p] = None]
            /\ exactAtStart' = [exactAtStart EXCEPT ![p] = {}]
            /\ storedAtStart' = [storedAtStart EXCEPT ![p] = {}]
            /\ pc' = [pc EXCEPT ![p] = "done"]
            /\ response' = [response EXCEPT ![p] = BadRequest]
       ELSE /\ steamid64' = [steamid64 EXCEPT ![p] = q[1]]
            /\ cachedAtStart' =
                   [cachedAtStart EXCEPT
                        ![p] = IF q[1] \in DOMAIN steam_ids THEN Some(steam_ids[q[1]]) ELSE None]
            /\ exactAtStart' =
                   [exactAtStart EXCEPT ![p] = {e[2] : e \in {x \in exact : x[1] = q[1]}}]
            /\ storedAtStart' = [storedAtStart EXCEPT ![p] = DOMAIN steam_ids]
            /\ pc' = [pc EXCEPT ![p] = "check_cache"]
            /\ response' = [response EXCEPT ![p] = NoResponse]
    /\ UNCHANGED <<steam_ids, exact>>

\* main.rs:66-73: the SELECT of check_cache answers; a hit is returned with error 0.
CheckCache(p) ==
    /\ pc[p] = "check_cache"
    /\ LET cached_time == check_cache(steam_ids, steamid64[p])
       IN  IF cached_time # None
           THEN Return(p, Ok(cached_time[1], 0, "cache"))
           ELSE /\ pc' = [pc EXCEPT ![p] = "send"]
                /\ UNCHANGED <<response, exact>>
    /\ UNCHANGED <<steam_ids, steamid64, timecreated, requests, upstream, sends, closest,
                   cachedAtStart, exactAtStart,
                   storedAtStart, unavailable>>

\* upstream_branch without the two let-else returns: every failed GET is estimated
upstream_branch_AllEstimate(outcome) ==
    IF outcome.kind = "Found" THEN "cache" ELSE "estimate"

\* main.rs:75-99: what the handler does with the outcome of the GET.
\*   "error_send" / "error_json": the let-else returns at lines 83 and 88
\*   "cache": line 90 found timecreated, cache_result is called
\*   "estimate": control reaches line 101
upstream_branch(outcome) ==
    CASE outcome.kind = "SendErr" -> "error_send"
      [] outcome.kind = "NotJson" -> "error_json"
      [] outcome.kind = "Found" -> "cache"
      [] OTHER -> "estimate"

\* Send that sends the GET again when send() is Err
Send_Retry(p, outcome) ==
    /\ pc[p] = "send"
    /\ upstream' = [upstream EXCEPT ![p] = Some(outcome)]
    /\ sends' = [sends EXCEPT ![p] = @ + 1]
    /\ LET branch == upstream_branch(outcome)
       IN  CASE branch = "error_send" ->
                    UNCHANGED <<pc, timecreated, response, exact>>
             [] branch = "error_json" ->
                    /\ Return(p, InternalServerError("Steam API response is not JSON"))
                    /\ UNCHANGED timecreated
             [] branch = "cache" ->
                    /\ timecreated' = [timecreated EXCEPT ![p] = outcome.timecreated]
                    /\ pc' = [pc EXCEPT ![p] = "cache_result"]
                    /\ UNCHANGED <<response, exact>>
             [] OTHER ->
                    /\ pc' = [pc EXCEPT ![p] = "estimate_from_db"]
                    /\ UNCHANGED <<timecreated, response, exact>>
    /\ UNCHANGED <<steam_ids, steamid64, requests, closest, cachedAtStart, exactAtStart,
                   storedAtStart, unavailable>>

\* main.rs:75-99: the GET to the Steam Web API is sent and its outcome arrives.
Send(p, outcome) ==
    /\ pc[p] = "send"
    /\ upstream' = [upstream EXCEPT ![p] = Some(outcome)]
    /\ sends' = [sends EXCEPT ![p] = @ + 1]
    /\ LET branch == upstream_branch(outcome)
       IN  CASE branch = "error_send" ->
                    /\ Return(p, InternalServerError("Could not GET Steam API"))
                    /\ UNCHANGED timecreated
             [] branch = "error_json" ->
                    /\ Return(p, InternalServerError("Steam API response is not JSON"))
                    /\ UNCHANGED timecreated
             [] branch = "cache" ->
                    /\ timecreated' = [timecreated EXCEPT ![p] = outcome.timecreated]
                    /\ pc' = [pc EXCEPT ![p] = "cache_result"]
                    /\ UNCHANGED <<response, exact>>
             [] OTHER ->
                    /\ pc' = [pc EXCEPT ![p] = "estimate_from_db"]
                    /\ UNCHANGED <<timecreated, response, exact>>
    /\ UNCHANGED <<steam_ids, steamid64, requests, closest, cachedAtStart, exactAtStart,
                   storedAtStart, unavailable>>

\* CacheResult with INSERT ... ON DUPLICATE KEY UPDATE timecreated = VALUES(timecreated)
CacheResult_Upsert(p) ==
    /\ pc[p] = "cache_result"
    /\ steam_ids' = cache_result(steam_ids, steamid64[p], timecreated[p])
    /\ Return(p, Ok(timecreated[p], 0, "upstream"))
    /\ UNCHANGED <<steamid64, timecreated, requests, upstream, sends, closest,
                   cachedAtStart, exactAtStart,
                   storedAtStart, unavailable>>

\* main.rs:91-97 and 121-128: the INSERT answers. Its Err is unwrapped, so a refused
\* INSERT panics the handler; an accepted one is followed by the exact response.
CacheResult(p) ==
    /\ pc[p] = "cache_result"
    /\ IF DuplicateKey(steam_ids, steamid64[p])
       THEN /\ pc' = [pc EXCEPT ![p] = "done"]
            /\ response' = [response EXCEPT ![p] = Panicked("cache_result")]
            /\ UNCHANGED <<steam_ids, exact>>
       ELSE /\ steam_ids' = cache_result(steam_ids, steamid64[p], timecreated[p])
            /\ Return(p, Ok(timecreated[p], 0, "upstream"))
    /\ UNCHANGED <<steamid64, timecreated, requests, upstream, sends, closest,
                   cachedAtStart, exactAtStart,
                   storedAtStart, unavailable>>

\* main.rs:101-109: the response built from the rows of the closest-ids query
EstimateResponse(rows, id) ==
    LET estimation == estimate_from_db(rows, id)
    IN  IF estimation = None
        THEN InternalServerError("Could not get DB estimation.")
        ELSE Ok(estimation[1].timecreated, estimation[1].error, "estimate")

\* How the handler can end once the closest-ids query returned rows: with the
\* response, or, when the addition in estimated_time overflows, with the panic of
\* a build that checks overflow
EstimateOutcomes(rows, id) ==
    {EstimateResponse(rows, id)}
        \cup IF /\ Len(rows) = 2
                /\ estimated_time_overflows(id, rows[1][1], rows[1][2], rows[2][1], rows[2][2])
             THEN {Panicked("attempt to add with overflow")}
             ELSE {}

\* EstimateFromDb that also stores the estimate in steam_ids
EstimateFromDb_Caching(p, rows) ==
    /\ pc[p] = "estimate_from_db"
    /\ closest' = [closest EXCEPT ![p] = Some(rows)]
    /\ LET estimation == estimate_from_db(rows, steamid64[p])
       IN  IF estimation = None
           THEN /\ Return(p, InternalServerError("Could not get DB estimation."))
                /\ UNCHANGED steam_ids
           ELSE /\ Return(p, Ok(estimation[1].timecreated, estimation[1].error, "estimate"))
                /\ steam_ids' = IF DuplicateKey(steam_ids, steamid64[p])
                                THEN steam_ids
                                ELSE cache_result(steam_ids, steamid64[p],
                                                  estimation[1].timecreated)
    /\ UNCHANGED <<steamid64, timecreated, requests, upstream, sends,
                   cachedAtStart, exactAtStart,
                   storedAtStart, unavailable>>

\* main.rs:101-109 and 130-173: the closest-ids SELECT answers with rows.
EstimateFromDb(p, rows) ==
    /\ pc[p] = "estimate_from_db"
    /\ closest' = [closest EXCEPT ![p] = Some(rows)]
    /\ \E r \in EstimateOutcomes(rows, steamid64[p]) : Return(p, r)
    /\ UNCHANGED <<steam_ids, steamid64, timecreated, requests, upstream, sends,
                   cachedAtStart, exactAtStart,
                   storedAtStart, unavailable>>

Next ==
    \/ \E p \in Workers, q \in Queries : lookup_steam_id(p, q)
    \/ \E p \in Workers : CheckCache(p)
    \/ \E p \in Workers, outcome \in UpstreamOutcomes : Send(p, outcome)
    \/ \E p \in Workers : CacheResult(p)
    \/ \E p \in Workers :
           \E rows \in closest_ids(steam_ids, steamid64[p]) : EstimateFromDb(p, rows)

Spec == Init /\ [][Next]_vars

\* The store cannot be reached: the SQL call worker p is suspended at (check_cache,
\* main.rs:113-117; cache_result, 122-127; the closest-ids query, 132-147) answers
\* Err, and its .unwrap() panics the handler.
StoreUnavailable(p) ==
    /\ pc[p] \in {"check_cache", "cache_result", "estimate_from_db"}
    /\ unavailable' = [unavailable EXCEPT ![p] = pc[p]]
    /\ pc' = [pc EXCEPT ![p] = "done"]
    /\ response' = [response EXCEPT ![p] = Panicked("sqlx::Error")]
    /\ UNCHANGED <<steam_ids, steamid64, timecreated, requests, upstream, sends, closest,
                   cachedAtStart, exactAtStart, storedAtStart, exact>>

NextFaults ==
    \/ Next
    \/ \E p \in Workers : StoreUnavailable(p)

\* The handler with a store that can be unreachable at any SQL call.
SpecFaults == Init /\ [][NextFaults]_vars

\* The rows a closest-ids query can answer with when nothing is assumed about the
\* table: up to two (steamid64, timecreated) rows, the same steamid64 twice included.
Rows == {<<i, t>> : i \in Ids, t \in Times}
QueryAnswers == {<< >>} \cup {<<a>> : a \in Rows} \cup {<<a, b>> : a \in Rows, b \in Rows}

\* Worker 1 serves a request for target: check_cache missed, the GET found no
\* timecreated, and the handler is suspended at the closest-ids query.
AtEstimateFromDb(target) ==
    /\ steamid64 = [p \in Workers |-> IF p = 1 THEN target ELSE 0]
    /\ pc = [p \in Workers |-> IF p = 1 THEN "estimate_from_db" ELSE "idle"]
    /\ timecreated = [p \in Workers |-> 0]
    /\ response = [p \in Workers |-> NoResponse]
    /\ requests = 1
    /\ upstream = [p \in Workers |-> IF p = 1 THEN Some(Failure("NoTime")) ELSE None]
    /\ sends = [p \in Workers |-> IF p = 1 THEN 1 ELSE 0]
    /\ closest = [p \in Workers |-> None]
    /\ cachedAtStart = [p \in Workers |-> None]
    /\ exactAtStart = [p \in Workers |-> {}]
    /\ storedAtStart = [p \in Workers |-> {}]
    /\ unavailable = [p \in Workers |-> "none"]
    /\ exact = {}

InitEstimator ==
    /\ steam_ids = << >>
    /\ \E target \in Ids : AtEstimateFromDb(target)

NextEstimator ==
    \E p \in Workers : \E rows \in QueryAnswers : EstimateFromDb(p, rows)

\* estimate_from_db (main.rs:148-173) applied to every answer of the query.
SpecEstimator == InitEstimator /\ [][NextEstimator]_vars

\* Every table of rows with distinct steamid64s and timecreated in 0..MaxStoredTime.
StoredTimes == 0..MaxStoredTime
StoredTables == UNION {[S -> StoredTimes] : S \in SUBSET Ids}

InitStored ==
    /\ steam_ids \in StoredTables
    /\ \E target \in Ids : AtEstimateFromDb(target)

NextStored ==
    \E p \in Workers :
        \E rows \in closest_ids(steam_ids, steamid64[p]) : EstimateFromDb(p, rows)

\* The closest-ids query and estimate_from_db (main.rs:130-173) on every stored table.
SpecStored == InitStored /\ [][NextStored]_vars

\* ------------------------------------------------------------ properties
Done(p) == pc[p] = "done"
\* the outcome of the GET of worker p's request is of one of the kinds ks
Upstream(p, ks) == upstream[p] # None /\ upstream[p][1].kind \in ks
\* worker p's request was answered from the named branch of the handler
AnsweredBy(p, branch) ==
    Done(p) /\ response[p].status = "Ok" /\ response[p].body = branch

\* C1: a request whose steamid64 has a row in steam_ids when it begins sends no GET
\* to the Steam API and is answered Ok with the stored timecreated and error 0.
C1_CacheHit ==
    \A p \in Workers :
        cachedAtStart[p] # None =>
            /\ sends[p] = 0
            /\ upstream[p] = None
            /\ pc[p] \in {"check_cache", "done"}
            /\ steam_ids[steamid64[p]] = cachedAtStart[p][1]
            /\ Done(p) =>
                   /\ response[p].status = "Ok"
                   /\ response[p].timecreated = cachedAtStart[p][1]
                   /\ response[p].error = 0

C1_Witness ==
    \E p \in Workers :
        /\ cachedAtStart[p] # None
        /\ Done(p)
        /\ response[p].status = "Ok"

\* C2: a request that missed the cache and whose GET answered Found(ts) is answered
\* Ok with timecreated = ts and error = 0, and steam_ids then holds (steamid64, ts).
C2_UpstreamHit ==
    \A p \in Workers :
        (Done(p) /\ Upstream(p, {"Found"})) =>
            /\ response[p].status = "Ok"
            /\ response[p].timecreated = upstream[p][1].timecreated
            /\ response[p].error = 0
            /\ steamid64[p] \in DOMAIN steam_ids
            /\ steam_ids[steamid64[p]] = upstream[p][1].timecreated

\* C3: steam_ids starts empty, every row written to it is (steamid64, ts) of a
\* request whose GET answered Found(ts), no row is changed or removed, and the
\* step that answers an estimate writes nothing.
C3_OnlyUpstreamCached ==
    [][/\ \A i \in DOMAIN steam_ids : i \in DOMAIN steam_ids' /\ steam_ids'[i] = steam_ids[i]
       /\ \A i \in DOMAIN steam_ids' \ DOMAIN steam_ids :
              \E p \in Workers :
                  /\ steamid64[p] = i
                  /\ upstream[p] = Some(Found(steam_ids'[i]))
       /\ \A p \in Workers :
              (pc[p] = "estimate_from_db" /\ pc'[p] = "done") => steam_ids' = steam_ids
      ]_vars

C3_Witness ==
    \E p \in Workers :
        /\ AnsweredBy(p, "estimate")
        /\ steamid64[p] \notin DOMAIN steam_ids
        /\ Cardinality(DOMAIN steam_ids) >= 2

\* The two rows an estimate was computed from, in ascending steamid64 order.
RefLow(p) ==
    LET rows == closest[p][1]
    IN  IF rows[1][1] <= rows[2][1] THEN rows[1] ELSE rows[2]
RefHigh(p) ==
    LET rows == closest[p][1]
    IN  IF rows[1][1] <= rows[2][1] THEN rows[2] ELSE rows[1]
\* trunc(slope * (target - id_a)) with (id_a, t_a) = RefLow(p), (id_b, t_b) = RefHigh(p)
\* and slope = (t_b - t_a) / (id_b - id_a)
SlopeTimesDelta(p) ==
    TruncDiv((RefHigh(p)[2] - RefLow(p)[2]) * (steamid64[p] - RefLow(p)[1]),
             RefHigh(p)[1] - RefLow(p)[1])

\* C4: an estimate from two rows has timecreated = t_a + trunc(slope * (target - id_a)),
\* (id_a, t_a) being the row with the smaller steamid64, in whichever order the
\* query returned the two rows.
C4_EstimateFromLowerId ==
    \A p \in Workers :
        AnsweredBy(p, "estimate") =>
            response[p].timecreated = RefLow(p)[2] + SlopeTimesDelta(p)

\* C5: when the target lies outside the span of the two rows of an estimate, the
\* estimate is not clamped and its error is trunc(abs(slope * (target - id_a))),
\* id_a being the smaller of the two steamid64s.
C5_MarginOutsideSpan ==
    \A p \in Workers :
        (/\ AnsweredBy(p, "estimate")
         /\ (steamid64[p] < RefLow(p)[1] \/ steamid64[p] > RefHigh(p)[1])) =>
            response[p].error = Abs(SlopeTimesDelta(p))

\* the NotFound and TransportError outcomes of the Upstream Resolver (spec.md 4.2)
NotFoundKinds == {"NonSuccess", "NoTime"}
TransportErrorKinds == {"SendErr", "NotJson"}

\* the step of worker p that receives the outcome of its GET
GetAnswered(p) == pc[p] = "send" /\ pc'[p] # "send"
\* the step of worker p that receives the rows of the closest-ids query
EstimateAnswered(p) == pc[p] = "estimate_from_db" /\ pc'[p] = "done"

C7_FewerThanTwoRows ==
    [][\A p \in Workers :
           (EstimateAnswered(p) /\ Cardinality(DOMAIN steam_ids) < 2) =>
               /\ response'[p] = InternalServerError("Could not get DB estimation.")
               /\ estimate_from_db(closest'[p][1], steamid64[p]) = None
               /\ steam_ids' = steam_ids
      ]_vars

C7_Witness ==
    \E p \in Workers, q \in Workers :
        /\ Done(p) /\ closest[p] = Some(<< >>)
        /\ response[p] = InternalServerError("Could not get DB estimation.")
        /\ Done(q) /\ closest[q] # None /\ Len(closest[q][1]) = 1
        /\ response[q] = InternalServerError("Could not get DB estimation.")

\* C8 as claimed: an answer from the cache or from the Steam API has error = 0 and
\* an estimate has error > 0.
C8_MarginTellsProvenance ==
    \A p \in Workers :
        /\ (AnsweredBy(p, "cache") \/ AnsweredBy(p, "upstream")) => response[p].error = 0
        /\ AnsweredBy(p, "estimate") => response[p].error > 0

\* C8 amended: an answer from the cache or from the Steam API has error = 0 and an
\* estimate has error >= 0 (an estimate can carry error = 0).
C8_MarginNonNegative ==
    \A p \in Workers :
        /\ (AnsweredBy(p, "cache") \/ AnsweredBy(p, "upstream")) => response[p].error = 0
        /\ AnsweredBy(p, "estimate") => response[p].error >= 0

C8_Witness ==
    \E p \in Workers, q \in Workers :
        /\ AnsweredBy(p, "estimate") /\ response[p].error = 0
        /\ AnsweredBy(q, "estimate") /\ response[q].error > 0

\* C9: once a request for a steamid64 has been answered from the cache or from the
\* Steam API (timecreated = ts, error = 0), every request for that steamid64 that
\* begins later sends no GET and is answered with the same timecreated and error = 0.
C9_ExactIsIdempotent ==
    \A p \in Workers :
        exactAtStart[p] # {} =>
            /\ sends[p] = 0
            /\ upstream[p] = None
            /\ pc[p] \in {"check_cache", "done"}
            /\ Done(p) =>
                   /\ response[p].status = "Ok"
                   /\ response[p].error = 0
                   /\ exactAtStart[p] = {response[p].timecreated}

C9_Witness ==
    \E p \in Workers :
        /\ exactAtStart[p] # {}
        /\ Done(p)
        /\ response[p].status = "Ok"

\* C10: when two requests for the same steamid64 both miss the cache and both get
\* Found(ts), both are answered Ok with timecreated = ts and error = 0, and steam_ids
\* holds the row (steamid64, ts).
C10_RacingInsertsBenign ==
    \A p \in Workers, q \in Workers :
        (/\ p # q
         /\ Done(p) /\ Done(q)
         /\ steamid64[p] = steamid64[q]
         /\ Upstream(p, {"Found"})
         /\ upstream[q] = upstream[p]) =>
            /\ response[p].status = "Ok" /\ response[q].status = "Ok"
            /\ response[p].timecreated = upstream[p][1].timecreated
            /\ response[q].timecreated = upstream[p][1].timecreated
            /\ response[p].error = 0 /\ response[q].error = 0
            /\ steamid64[p] \in DOMAIN steam_ids
            /\ steam_ids[steamid64[p]] = upstream[p][1].timecreated

\* the set of the rows worker p's estimate was computed from
RefSet(p) == {closest[p][1][1], closest[p][1][2]}

\* C11: an estimate has error >= 0, and two estimates for the same target whose two
\* nearest rows are the same set have the same timecreated and the same error, in
\* whichever order the query returned the two rows to each.
C11_EstimateDeterministic ==
    \A p \in Workers, q \in Workers :
        (AnsweredBy(p, "estimate") /\ AnsweredBy(q, "estimate")) =>
            /\ response[p].error >= 0
            /\ (steamid64[p] = steamid64[q] /\ RefSet(p) = RefSet(q)) =>
                   /\ response[p].timecreated = response[q].timecreated
                   /\ response[p].error = response[q].error

\* C12: a request whose GET answered Found(ts) and whose INSERT then failed because
\* the store could not be reached is still answered Ok with timecreated = ts and
\* error = 0.
C12_WriteFailureIsSoft ==
    \A p \in Workers :
        (Done(p) /\ Upstream(p, {"Found"}) /\ unavailable[p] = "cache_result") =>
            /\ response[p].status = "Ok"
            /\ response[p].timecreated = upstream[p][1].timecreated
            /\ response[p].error = 0

\* C13: every request with a parsed steamid64 ends with an exact result, with an
\* estimated result or with the failure response; a store that cannot be reached
\* at check_cache or at the closest-ids query ends it with the failure response;
\* no request ends in a panic.
C13_ThreeOutcomes ==
    \A p \in Workers :
        (Done(p) /\ response[p] # BadRequest) =>
            /\ \/ AnsweredBy(p, "cache") /\ response[p].error = 0
               \/ AnsweredBy(p, "upstream") /\ response[p].error = 0
               \/ AnsweredBy(p, "estimate")
               \/ response[p].status = "InternalServerError"
            /\ unavailable[p] \in {"check_cache", "estimate_from_db"} =>
                   response[p].status = "InternalServerError"


\* the row of worker p's own steamid64 in steam_ids, if there is one
OwnRow(p) ==
    IF steamid64[p] \in DOMAIN steam_ids THEN Some(steam_ids[steamid64[p]]) ELSE None

\* steam_ids without the rows of other identifiers stored since worker p's request
\* began
StoreWithoutOthers(p) ==
    [i \in DOMAIN steam_ids \cap (storedAtStart[p] \cup {steamid64[p]}) |-> steam_ids[i]]

\* C14 as stated: a request that reaches the closest-ids query is answered as it
\* would be had no request for another steamid64 stored a row since it began.
C14_Independent ==
    [][\A p \in Workers :
           EstimateAnswered(p) =>
               \E rows \in closest_ids(StoreWithoutOthers(p), steamid64[p]) :
                   response'[p] = EstimateResponse(rows, steamid64[p])]_vars

\* C14: requests share only the steam_ids table. A request that ends at check_cache,
\* at the GET or at cache_result is answered from the row of its own steamid64 and
\* the outcome of its GET, whatever rows of other identifiers are stored; a request
\* that ends at the closest-ids query is answered from the rows in the table at the
\* moment of the query.
C14_SharesOnlyTheTable ==
    [][\A p \in Workers :
           /\ (pc[p] = "check_cache" /\ pc'[p] = "send") => OwnRow(p) = None
           /\ (pc[p] \in {"check_cache", "send", "cache_result", "estimate_from_db"}
                   /\ pc'[p] = "done") =>
                  CASE pc[p] = "check_cache" ->
                           /\ OwnRow(p) # None
                           /\ response'[p] = Ok(OwnRow(p)[1], 0, "cache")
                    [] pc[p] = "send" ->
                           /\ upstream'[p][1].kind \in TransportErrorKinds
                           /\ response'[p].status = "InternalServerError"
                    [] pc[p] = "cache_result" ->
                           response'[p] = IF OwnRow(p) = None
                                          THEN Ok(upstream[p][1].timecreated, 0, "upstream")
                                          ELSE Panicked("cache_result")
                    [] OTHER ->
                           \E rows \in closest_ids(steam_ids, steamid64[p]) :
                               response'[p] = EstimateResponse(rows, steamid64[p])]_vars

\* a request was answered with an estimate from a row of another identifier that
\* was stored after the request began
C14_Witness ==
    \E p \in Workers :
        /\ AnsweredBy(p, "estimate")
        /\ \E k \in 1..2 :
               /\ closest[p][1][k][1] \notin storedAtStart[p]
               /\ closest[p][1][k][1] # steamid64[p]


\* C15: steam_ids is append-only with one row per steamid64: no step changes or
\* removes a row; a step adds at most one row, the row of the steamid64 of the
\* request that takes its cache_result step; the steps of check_cache, of the GET
\* and of the closest-ids query leave steam_ids unchanged.
C15_AppendOnly ==
    [][/\ \A i \in DOMAIN steam_ids :
              i \in DOMAIN steam_ids' /\ steam_ids'[i] = steam_ids[i]
       /\ Cardinality(DOMAIN steam_ids' \ DOMAIN steam_ids) <= 1
       /\ \A i \in DOMAIN steam_ids' \ DOMAIN steam_ids :
              \E p \in Workers :
                  /\ pc[p] = "cache_result" /\ pc'[p] = "done"
                  /\ steamid64[p] = i
                  /\ steam_ids'[i] = timecreated[p]
       /\ \A p \in Workers :
              (pc[p] \in {"check_cache", "send", "estimate_from_db"} /\ pc'[p] # pc[p]) =>
                  steam_ids' = steam_ids]_vars

\* two rows are stored, a request was answered with an estimate, and an INSERT of a
\* stored steamid64 with another timecreated was refused
C15_Witness ==
    /\ Cardinality(DOMAIN steam_ids) >= 2
    /\ \E p \in Workers : AnsweredBy(p, "estimate")
    /\ \E p \in Workers :
           /\ response[p] = Panicked("cache_result")
           /\ steam_ids[steamid64[p]] # timecreated[p]


RefNearer(p) ==
    {r \in {closest[p][1][1], closest[p][1][2]} :
        \A s \in {closest[p][1][1], closest[p][1][2]} :
            Abs(r[1] - steamid64[p]) <= Abs(s[1] - steamid64[p])}

\* C17: the error of an estimate is trunc(abs(slope * (target - id_n))), where
\* (id_n, t_n) is the row of the two whose steamid64 is nearer to the target and
\* slope = (t_b - t_a) / (id_b - id_a), for targets inside and outside the span.
C17_MarginFromNearerRow ==
    \A p \in Workers :
        AnsweredBy(p, "estimate") =>
            \A n \in RefNearer(p) :
                response[p].error =
                    Abs(TruncDiv((RefHigh(p)[2] - RefLow(p)[2]) * (steamid64[p] - n[1]),
                                 RefHigh(p)[1] - RefLow(p)[1]))

\* an estimate for a target inside the span whose nearer row is the one with the
\* larger steamid64 and whose error is positive
C17_Witness ==
    \E p \in Workers :
        /\ AnsweredBy(p, "estimate")
        /\ RefLow(p)[1] < steamid64[p] /\ steamid64[p] < RefHigh(p)[1]
        /\ RefNearer(p) = {RefHigh(p)}
        /\ response[p].error > 0

\* C19: when the target lies strictly between the steamid64s of the two rows of an
\* estimate, timecreated lies between the two rows' timecreated (inclusive) and
\* error is at most their absolute difference, in whichever order the query
\* returned the rows.
C19_InsideSpanBounded ==
    \A p \in Workers :
        (/\ AnsweredBy(p, "estimate")
         /\ RefLow(p)[1] < steamid64[p] /\ steamid64[p] < RefHigh(p)[1]) =>
            LET t_a == RefLow(p)[2]
                t_b == RefHigh(p)[2]
            IN  /\ response[p].timecreated >= (IF t_a <= t_b THEN t_a ELSE t_b)
                /\ response[p].timecreated <= (IF t_a <= t_b THEN t_b ELSE t_a)
                /\ response[p].error <= Abs(t_b - t_a)

\* an estimate for a target strictly inside the span that lies strictly between
\* the two rows' timecreated, from rows returned with the larger steamid64 first
C19_Witness ==
    \E p \in Workers :
        /\ AnsweredBy(p, "estimate")
        /\ RefLow(p)[1] < steamid64[p] /\ steamid64[p] < RefHigh(p)[1]
        /\ closest[p][1][1] = RefHigh(p)
        /\ response[p].timecreated # RefLow(p)[2]
        /\ response[p].timecreated # RefHigh(p)[2]


\* worker p's handler execution is suspended at one of its awaits
InFlight(p) == pc[p] \in {"check_cache", "send", "cache_result", "estimate_from_db"}

\* the order of the awaits of lookup_steam_id: from each, the places the handler
\* can be at next
HandlerOrder ==
    {<<"check_cache", "send">>, <<"check_cache", "done">>,
     <<"send", "cache_result">>, <<"send", "estimate_from_db">>, <<"send", "done">>,
     <<"cache_result", "done">>, <<"estimate_from_db", "done">>}

\* C18: a request that has begun always has its next step to take and every step
\* takes it forward in the order check_cache, GET, then cache_result or the
\* closest-ids query, then the end, so it ends after at most one of each; one GET
\* is sent per visit of the GET (no retry) and none after a hit of check_cache;
\* steam_ids changes only in a cache_result step, the closest-ids rows are read
\* only in an estimate_from_db step.
C18_EndsAfterOneOfEach ==
    /\ [](\A p \in Workers :
              /\ sends[p] <= 1
              /\ AnsweredBy(p, "cache") => sends[p] = 0 /\ closest[p] = None
              /\ InFlight(p) =>
                     ENABLED (\/ CheckCache(p)
                              \/ \E outcome \in UpstreamOutcomes : Send(p, outcome)
                              \/ CacheResult(p)
                              \/ \E rows \in closest_ids(steam_ids, steamid64[p]) :
                                     EstimateFromDb(p, rows)))
    /\ [][/\ \A p \in Workers :
                 /\ (InFlight(p) /\ pc'[p] # pc[p]) => <<pc[p], pc'[p]>> \in HandlerOrder
                 /\ InFlight(p) =>
                        sends'[p] = sends[p] + (IF pc[p] = "send" /\ pc'[p] # pc[p]
                                                THEN 1 ELSE 0)
                 /\ (InFlight(p) /\ closest'[p] # closest[p]) =>
                        pc[p] = "estimate_from_db" /\ pc'[p] = "done"
          /\ steam_ids' # steam_ids =>
                 \E p \in Workers : pc[p] = "cache_result" /\ pc'[p] = "done"]_vars

\* one request ended at check_cache without a GET, another went through the GET
\* and the closest-ids query, and a third stored its row
C18_Witness ==
    /\ steam_ids # << >>
    /\ \E p \in Workers, q \in Workers :
           /\ AnsweredBy(p, "cache") /\ sends[p] = 0
           /\ Done(q) /\ sends[q] = 1 /\ closest[q] # None

====
